---- MODULE Spec2Model ----
(***************************************************************************)
(* Model of src/src/App.jsx (TradeDashboard): the journal entry store and  *)
(* its React update queue, the persistence effect, the startup load, the   *)
(* derived equity series, the daily loss rule and calcPosition.            *)
(*                                                                         *)
(* JavaScript values are records [k, n, d, s]:                             *)
(*   k = "num"   the finite number n/d (d > 0, lowest terms)               *)
(*   k = "nan"   NaN                                                       *)
(*   k = "inf"   +Infinity (n = 1) or -Infinity (n = -1)                   *)
(*   k = "str"   the string whose characters are the sequence s            *)
(*   k = "undef" undefined,  k = "null" null                               *)
(* Dates are ISO YYYY-MM-DD strings; a date is modelled by the number      *)
(* YYYYMMDD, whose numeric order is the lexicographic order of the string. *)
(***************************************************************************)
EXTENDS Integers, Sequences, FiniteSets, TLC

(* ---------------------------------------------------------------------- *)
(* JavaScript values and arithmetic                                        *)
(* ---------------------------------------------------------------------- *)

Abs(x) == IF x < 0 THEN -x ELSE x

RECURSIVE GCD(_, _)
GCD(a, b) == IF b = 0 THEN a ELSE GCD(b, a % b)

Num(n, d) ==
  LET g == GCD(Abs(n), Abs(d))
      sg == IF d < 0 THEN -1 ELSE 1
  IN  [k |-> "num", n |-> (sg * n) \div g, d |-> Abs(d) \div g, s |-> <<>>]

NaN == [k |-> "nan", n |-> 0, d |-> 1, s |-> <<>>]
Inf(sign) == [k |-> "inf", n |-> sign, d |-> 1, s |-> <<>>]
Undef == [k |-> "undef", n |-> 0, d |-> 1, s |-> <<>>]
Null == [k |-> "null", n |-> 0, d |-> 1, s |-> <<>>]
Str(chars) == [k |-> "str", n |-> 0, d |-> 1, s |-> chars]

IsNum(v) == v.k = "num"
Sign(v) == IF v.n > 0 THEN 1 ELSE IF v.n < 0 THEN -1 ELSE 0

\* JavaScript truthiness (ToBoolean)
Truthy(v) ==
  CASE v.k = "num" -> v.n # 0
    [] v.k = "inf" -> TRUE
    [] v.k = "str" -> Len(v.s) > 0
    [] OTHER -> FALSE

\* a || b
Or(a, b) == IF Truthy(a) THEN a ELSE b

Digits == <<"0", "1", "2", "3", "4", "5", "6", "7", "8", "9">>
IsDigit(c) == \E i \in 1..10 : Digits[i] = c
DigitVal(c) == (CHOOSE i \in 1..10 : Digits[i] = c) - 1
IsSpace(c) == c = " "

RECURSIVE TrimLeft(_)
TrimLeft(cs) ==
  IF cs # <<>> /\ IsSpace(Head(cs)) THEN TrimLeft(Tail(cs)) ELSE cs

RECURSIVE TrimRight(_)
TrimRight(cs) ==
  IF cs # <<>> /\ IsSpace(cs[Len(cs)])
  THEN TrimRight(SubSeq(cs, 1, Len(cs) - 1))
  ELSE cs

\* String.prototype.trim
Trim(cs) == TrimRight(TrimLeft(cs))

\* value of a run of decimal digits, most significant first
RECURSIVE DigitsVal(_)
DigitsVal(cs) ==
  IF cs = <<>> THEN 0
  ELSE 10 * DigitsVal(SubSeq(cs, 1, Len(cs) - 1)) + DigitVal(cs[Len(cs)])

RECURSIVE Pow10(_)
Pow10(e) == IF e = 0 THEN 1 ELSE 10 * Pow10(e - 1)

AllDigits(cs) == \A i \in 1..Len(cs) : IsDigit(cs[i])

\* StringToNumber on the decimal literals [+-]?digits[.digits]; the empty or
\* all-blank string is 0, every other string is NaN.
StringToNumber(chars) ==
  LET t == Trim(chars)
      signed == t # <<>> /\ Head(t) \in {"-", "+"}
      sg == IF t # <<>> /\ Head(t) = "-" THEN -1 ELSE 1
      body == IF signed THEN Tail(t) ELSE t
      dots == {i \in 1..Len(body) : body[i] = "."}
      ip == IF dots = {} THEN body
            ELSE SubSeq(body, 1, (CHOOSE i \in dots : TRUE) - 1)
      fp == IF dots = {} THEN <<>>
            ELSE SubSeq(body, (CHOOSE i \in dots : TRUE) + 1, Len(body))
  IN  IF t = <<>> THEN Num(0, 1)
      ELSE IF Cardinality(dots) > 1 \/ ~AllDigits(ip) \/ ~AllDigits(fp)
              \/ Len(ip) + Len(fp) = 0
      THEN NaN
      ELSE Num(sg * (DigitsVal(ip) * Pow10(Len(fp)) + DigitsVal(fp)), Pow10(Len(fp)))

\* Number(v)
Number(v) ==
  CASE v.k = "str" -> StringToNumber(v.s)
    [] v.k = "undef" -> NaN
    [] v.k = "null" -> Num(0, 1)
    [] OTHER -> v

\* a - b, a * b, a / b on numbers (IEEE semantics for NaN and division by zero)
Sub(a, b) ==
  IF IsNum(a) /\ IsNum(b) THEN Num(a.n * b.d - b.n * a.d, a.d * b.d)
  ELSE IF a.k = "inf" /\ IsNum(b) THEN a
  ELSE IF IsNum(a) /\ b.k = "inf" THEN Inf(-b.n)
  ELSE IF a.k = "inf" /\ b.k = "inf" /\ a.n # b.n THEN a
  ELSE NaN

Mul(a, b) ==
  IF IsNum(a) /\ IsNum(b) THEN Num(a.n * b.n, a.d * b.d)
  ELSE IF a.k \in {"num", "inf"} /\ b.k \in {"num", "inf"} /\ Sign(a) * Sign(b) # 0
  THEN Inf(Sign(a) * Sign(b))
  ELSE NaN

Div(a, b) ==
  IF IsNum(a) /\ IsNum(b)
  THEN IF b.n # 0 THEN Num(a.n * b.d, a.d * b.n)
       ELSE IF a.n = 0 THEN NaN ELSE Inf(Sign(a))
  ELSE IF a.k = "inf" /\ IsNum(b) THEN Inf(IF b.n < 0 THEN -a.n ELSE a.n)
  ELSE IF IsNum(a) /\ b.k = "inf" THEN Num(0, 1)
  ELSE NaN

\* Math.abs
MathAbs(a) ==
  IF IsNum(a) THEN Num(Abs(a.n), a.d)
  ELSE IF a.k = "inf" THEN Inf(1) ELSE NaN

\* a < b, a <= b on numbers; every comparison with NaN is false
Lt(a, b) ==
  CASE a.k = "nan" \/ b.k = "nan" -> FALSE
    [] IsNum(a) /\ IsNum(b) -> a.n * b.d < b.n * a.d
    [] a.k = "inf" /\ b.k = "inf" -> a.n < b.n
    [] a.k = "inf" -> a.n < 0
    [] OTHER -> b.n > 0

Le(a, b) ==
  CASE a.k = "nan" \/ b.k = "nan" -> FALSE
    [] OTHER -> Lt(a, b) \/ a = b

\* Math.max(a, b): NaN when either argument is NaN
MathMax(a, b) ==
  IF a.k = "nan" \/ b.k = "nan" THEN NaN
  ELSE IF Lt(a, b) THEN b ELSE a

Hundred == Num(100, 1)
One == Num(1, 1)
Zero == Num(0, 1)

(* ---------------------------------------------------------------------- *)
(* State                                                                   *)
(* ---------------------------------------------------------------------- *)

VARIABLES
  entries,          \* useState entries: the committed journal collection
  settings,         \* useState settings
  queue,            \* pending setEntries updates, oldest first
  squeue,           \* pending setSettings updates, oldest first
  equity,           \* useMemo equity, derived from entries at the last render
  persisted,        \* localStorage[storageKey]
  effectPending,    \* the persist effect is scheduled and has not run yet
  args,             \* the argument object of a calcPosition call
  positionCalc,     \* its result
  dailyRow,         \* the equity row of form.date
  maxDailyLossPercent, \* settings.maxDailyLossPercent
  dailyLossExceeded,   \* useMemo dailyLossExceeded
  raw,              \* localStorage content found at startup
  initial,          \* what the useState initializers returned
  pc                \* position of the modelled call or of the startup

vars == <<entries, settings, queue, squeue, equity, persisted, effectPending,
          args, positionCalc, dailyRow, maxDailyLossPercent, dailyLossExceeded,
          raw, initial, pc>>

storeVars == <<entries, settings, queue, squeue, equity, persisted, effectPending>>
posVars == <<args, positionCalc>>
ruleVars == <<dailyRow, maxDailyLossPercent, dailyLossExceeded>>
loadVars == <<raw, initial>>

(* ---------------------------------------------------------------------- *)
(* calcPosition                                                            *)
(* ---------------------------------------------------------------------- *)

NullPlan ==
  [isNull |-> TRUE, entry |-> Undef, stop |-> Undef, stopDist |-> Undef,
   riskValue |-> Undef, positionUSDT |-> Undef, units |-> Undef,
   notional |-> Undef, marginRequired |-> Undef, estFees |-> Undef]

\* lines 28-36: the plan computed once the inputs passed the guards
Plan(a) ==
  LET e == Number(a.entry)
      s == Number(a.stop)
      bal == Number(a.balance)
      rPct == Div(Number(a.riskPercent), Hundred)
      fPct == Div(Number(a.feePercent), Hundred)
      lev == MathMax(One, Number(Or(a.leverage, One)))
      stopDist == MathAbs(Sub(e, s))
      riskValue == Mul(bal, rPct)
      positionUSDT == Div(riskValue, Div(stopDist, e))
      units == Div(positionUSDT, e)
      notional == positionUSDT
      marginRequired == Div(notional, lev)
      estFees == Mul(notional, fPct)
  IN  [isNull |-> FALSE, entry |-> e, stop |-> s, stopDist |-> stopDist,
       riskValue |-> riskValue, positionUSDT |-> positionUSDT,
       units |-> units, notional |-> notional,
       marginRequired |-> marginRequired, estFees |-> estFees]

\* if (!e || !s || !bal || !rPct) return null
MissingInput(a) ==
  \/ ~Truthy(Number(a.entry))
  \/ ~Truthy(Number(a.stop))
  \/ ~Truthy(Number(a.balance))
  \/ ~Truthy(Div(Number(a.riskPercent), Hundred))

\* calcPosition without its stop-distance guard
calcPositionNoStopGuard(a) == IF MissingInput(a) THEN NullPlan ELSE Plan(a)

calcPosition(a) ==
  IF MissingInput(a) THEN NullPlan
  ELSE IF Le(MathAbs(Sub(Number(a.entry), Number(a.stop))), Zero) THEN NullPlan
  ELSE Plan(a)

\* Inputs of the position calculator: prices typed into the number inputs,
\* the balance, and the three settings it reads.
PriceInputs ==
  {Str(<<>>), Str(<<"a", "b", "c">>), Str(<<"0">>), Str(<<"1", "0", "0">>),
   Str(<<"9", "5">>), Str(<<"-", "5">>)}
BalanceInputs ==
  {Num(0, 1), Num(10000, 1), Str(<<>>), Str(<<"1", "0", "0", "0">>), NaN}
RiskInputs ==
  {Num(1, 1), Str(<<"0">>), Str(<<>>), Str(<<"x">>), Str(<<"0", ".", "5">>), Undef}
FeeInputs == {Num(1, 25), Str(<<>>)}
LeverageInputs ==
  {Num(3, 1), Num(0, 1), Num(-2, 1), Num(1, 2), Str(<<>>), Str(<<"0">>),
   Str(<<"0", ".", "5">>), Str(<<"1", "0">>), Str(<<"a", "b", "c">>), Undef}

ArgsSet ==
  [entry : PriceInputs, stop : PriceInputs, balance : BalanceInputs,
   riskPercent : RiskInputs, feePercent : FeeInputs, leverage : LeverageInputs]

(* ---------------------------------------------------------------------- *)
(* Settings, journal entries and the derived equity series                 *)
(* ---------------------------------------------------------------------- *)

\* the settings of a first start
DefaultSettings ==
  [currency |-> Str(<<"U", "S", "D">>), riskPercent |-> Num(1, 1),
   maxDailyLossPercent |-> Num(3, 1), dailyTargetPercent |-> Num(1, 1),
   monthlyTargetPercent |-> Num(20, 1), feePercent |-> Num(4, 100),
   leverage |-> Num(3, 1)]

\* the longest journal the model lets an append produce
MaxEntries == 2
\* the most updates that can be pending between two renders
MaxQueue == 2

DateOf(i) == 20240100 + i
Dates == {DateOf(1), DateOf(2)}

\* What the daily form can hold at a submit: a date and the typed balances
\* and notes.
FormInputs ==
  {[date |-> dt, startBalance |-> Str(<<"1", "0", "0", "0">>),
    endBalance |-> Str(<<"1", "0", "5", "0">>), notes |-> Str(<<" ", "o", "k", " ">>)]
     : dt \in Dates}
  \cup
  {[date |-> dt, startBalance |-> Str(<<>>),
    endBalance |-> Str(<<"9", "0", "0">>), notes |-> Str(<<>>)]
     : dt \in Dates}

\* the payload addOrUpdateEntry builds from the form
Payload(form) ==
  [date |-> form.date,
   startBalance |-> Number(Or(form.startBalance, Zero)),
   endBalance |-> Number(Or(form.endBalance, Zero)),
   notes |-> Trim(Or(form.notes, Str(<<>>)).s)]

\* the comparator with its operands swapped
localeCompareSwapped(a, b) == b - a

\* a.date.localeCompare(b.date): negative, zero or positive
localeCompare(a, b) == a - b

\* Array.prototype.sort with the date comparator: a stable sort
RECURSIVE InsertByDate(_, _)
InsertByDate(x, sorted) ==
  IF sorted = <<>> THEN <<x>>
  ELSE IF localeCompare(Head(sorted).date, x.date) <= 0
       THEN <<Head(sorted)>> \o InsertByDate(x, Tail(sorted))
       ELSE <<x>> \o sorted

RECURSIVE SortByDate(_)
SortByDate(es) ==
  IF es = <<>> THEN <<>>
  ELSE InsertByDate(es[Len(es)], SortByDate(SubSeq(es, 1, Len(es) - 1)))

\* one row of the equity series
EquityRow(e, i) ==
  LET start == Number(Or(e.startBalance, Zero))
      end == Number(Or(e.endBalance, Zero))
      pl == Sub(end, start)
      retPct == IF Lt(Zero, start) THEN Mul(Div(pl, start), Hundred) ELSE Zero
  IN  [index |-> i + 1, date |-> e.date, start |-> start, end |-> end,
       pl |-> pl, retPct |-> retPct]

\* the equity useMemo: a sorted copy of entries mapped to rows; `source` is
\* the entries array as the computation leaves it
equityMemo(es) ==
  LET sorted == SortByDate(es)
  IN  [rows |-> [i \in 1..Len(sorted) |-> EquityRow(sorted[i], i - 1)],
       source |-> es]

(* ---------------------------------------------------------------------- *)
(* The daily loss rule                                                     *)
(* ---------------------------------------------------------------------- *)

NoRow ==
  [found |-> FALSE,
   row |-> [index |-> 0, date |-> 0, start |-> Undef, end |-> Undef,
            pl |-> Undef, retPct |-> Undef]]

\* the dailyLossExceeded useMemo
lossExceeded(daily, maxLoss) ==
  IF ~daily.found \/ Le(daily.row.start, Zero) THEN FALSE
  ELSE LET lossPct == IF Lt(daily.row.pl, Zero)
                      THEN Mul(Div(MathAbs(daily.row.pl), daily.row.start), Hundred)
                      ELSE Zero
       IN  Le(Number(Or(maxLoss, Zero)), lossPct)

RuleEntries ==
  {[date |-> DateOf(1), startBalance |-> sb, endBalance |-> eb, notes |-> <<>>]
     : sb \in {Num(0, 1), Num(1000, 1)},
       eb \in {Num(900, 1), Num(960, 1), Num(970, 1), Num(1000, 1), Num(1050, 1)}}

RuleRows ==
  {[found |-> TRUE, row |-> equityMemo(<<e>>).rows[1]] : e \in RuleEntries}
  \cup {NoRow}

ThresholdInputs ==
  {Num(3, 1), Num(0, 1), Num(-1, 1), Str(<<>>), Str(<<"3">>), Str(<<"0">>),
   Str(<<"-", "1">>), Str(<<"a", "b", "c">>), Undef}

(* ---------------------------------------------------------------------- *)
(* The journal store: handlers, the update queues, render and persistence  *)
(* ---------------------------------------------------------------------- *)

NoEntry == [date |-> 0, startBalance |-> Undef, endBalance |-> Undef, notes |-> <<>>]

\* the three kinds of update the handlers pass to setEntries
SetValue(copy) == [kind |-> "set", value |-> copy, payload |-> NoEntry, date |-> 0]
AppendPayload(payload) == [kind |-> "append", value |-> <<>>, payload |-> payload, date |-> 0]
FilterDate(date) == [kind |-> "filter", value |-> <<>>, payload |-> NoEntry, date |-> date]

\* the filter with its test inverted: keeps the matching date only
FilterKeepsMatch(p, date) == SelectSeq(p, LAMBDA x : x.date = date)

\* p.filter((x) => x.date !== date)
RECURSIVE FilterOut(_, _)
FilterOut(p, date) ==
  IF p = <<>> THEN <<>>
  ELSE IF Head(p).date # date THEN <<Head(p)>> \o FilterOut(Tail(p), date)
       ELSE FilterOut(Tail(p), date)

\* one queued update applied to the state p that precedes it
ApplyUpdate(p, u) ==
  CASE u.kind = "set" -> u.value
    [] u.kind = "append" -> Append(p, u.payload)
    [] OTHER -> FilterOut(p, u.date)

\* React processes the queue of a state hook in order at the next render
RECURSIVE ProcessQueue(_, _)
ProcessQueue(p, q) ==
  IF q = <<>> THEN p ELSE ProcessQueue(ApplyUpdate(p, Head(q)), Tail(q))

\* setSettings((s) => ({ ...s, [field]: v }))
ApplySetting(s, u) == [s EXCEPT ![u.field] = u.value]

RECURSIVE ProcessSettings(_, _)
ProcessSettings(s, q) ==
  IF q = <<>> THEN s ELSE ProcessSettings(ApplySetting(s, Head(q)), Tail(q))

\* entries.findIndex((x) => x.date === date), 1-based; 0 when there is none
findIndex(es, date) ==
  LET hits == {i \in 1..Len(es) : es[i].date = date}
  IN  IF hits = {} THEN 0 ELSE CHOOSE i \in hits : \A j \in hits : i <= j

\* an upsert that drops the old entry and puts the payload last
UpsertMovesToEnd(es, form) ==
  IF findIndex(es, form.date) >= 1
  THEN SetValue(Append(SelectSeq(es, LAMBDA x : x.date # form.date), Payload(form)))
  ELSE AppendPayload(Payload(form))

\* an upsert that never looks for the date
UpsertAlwaysAppends(es, form) == AppendPayload(Payload(form))

\* the update addOrUpdateEntry enqueues, given the entries of its closure
UpsertUpdate(es, form) ==
  LET idx == findIndex(es, form.date)
      payload == Payload(form)
  IN  IF idx >= 1 THEN SetValue([es EXCEPT ![idx] = payload])
      ELSE AppendPayload(payload)

\* JSON.stringify of one value: NaN and the infinities become null
ToJSON(v) == IF v.k \in {"nan", "inf"} THEN Null ELSE v

\* the item the persist effect writes
JSONstringify(es, s) ==
  [present |-> TRUE,
   entries |-> [i \in 1..Len(es) |->
                  [es[i] EXCEPT !.startBalance = ToJSON(@), !.endBalance = ToJSON(@)]],
   settings |-> [f \in DOMAIN s |-> ToJSON(s[f])]]

AbsentItem == [present |-> FALSE, entries |-> <<>>, settings |-> DefaultSettings]

\* a persist effect that depends on [entries] alone
DepsEntriesOnly(q, sq) == q # <<>>

\* the dependency test of the persist effect: [entries, settings] by identity;
\* every processed update yields a new array or object
DepsChanged(q, sq) == q # <<>> \/ sq # <<>>

\* the settings inputs the model types into
SettingFields == {"maxDailyLossPercent", "leverage"}
SettingInputs == {Str(<<>>), Str(<<"5">>)}

Pending == Len(queue) + Len(squeue)

\* The handlers below close over the entries of the last render. React only
\* queues their updates; handlers that run before the next render (events
\* dispatched in one task, a batch) all see the same entries. The passive
\* effects of a render run before the next handler or render.

\* form submit: addOrUpdateEntry with the form of the current render
Submit(form) ==
  /\ pc = "running"
  /\ ~effectPending
  /\ Pending < MaxQueue
  /\ LET u == UpsertUpdate(entries, form)
     IN  /\ u.kind = "append" => Len(ProcessQueue(entries, queue)) < MaxEntries
         /\ queue' = Append(queue, u)
  /\ UNCHANGED <<entries, settings, squeue, equity, persisted, effectPending>>
  /\ UNCHANGED <<posVars, ruleVars, loadVars, pc>>

\* the Excluir button of a rendered table row
removeEntry(date) ==
  /\ pc = "running"
  /\ ~effectPending
  /\ Pending < MaxQueue
  /\ queue' = Append(queue, FilterDate(date))
  /\ UNCHANGED <<entries, settings, squeue, equity, persisted, effectPending>>
  /\ UNCHANGED <<posVars, ruleVars, loadVars, pc>>

\* onChange of one of the settings inputs
ChangeSetting(field, v) ==
  /\ pc = "running"
  /\ ~effectPending
  /\ Pending < MaxQueue
  /\ squeue' = Append(squeue, [field |-> field, value |-> v])
  /\ UNCHANGED <<entries, settings, queue, equity, persisted, effectPending>>
  /\ UNCHANGED <<posVars, ruleVars, loadVars, pc>>

\* re-render: both queues are processed, the memo is recomputed and the
\* persist effect is scheduled when a dependency changed
Render ==
  /\ pc = "running"
  /\ ~effectPending
  /\ Pending > 0
  /\ LET m == equityMemo(ProcessQueue(entries, queue))
     IN  /\ entries' = m.source
         /\ equity' = m.rows
  /\ settings' = ProcessSettings(settings, squeue)
  /\ queue' = <<>>
  /\ squeue' = <<>>
  /\ effectPending' = DepsChanged(queue, squeue)
  /\ UNCHANGED persisted
  /\ UNCHANGED <<posVars, ruleVars, loadVars, pc>>

\* the persist effect
PersistEffect ==
  /\ pc = "running"
  /\ effectPending
  /\ persisted' = JSONstringify(entries, settings)
  /\ effectPending' = FALSE
  /\ UNCHANGED <<entries, settings, queue, squeue, equity>>
  /\ UNCHANGED <<posVars, ruleVars, loadVars, pc>>

(* ---------------------------------------------------------------------- *)
(* Startup: the useState initializers and the first render                 *)
(* ---------------------------------------------------------------------- *)

\* A value read out of the parsed item: its type k, its truthiness, whether
\* it has the shape the component expects (ok), and its content when it is
\* an array of entries (arr) or a settings object (obj).
NoSettings == [f \in DOMAIN DefaultSettings |-> Undef]
Value(k, truthy, ok, arr, obj) ==
  [k |-> k, truthy |-> truthy, ok |-> ok, arr |-> arr, obj |-> obj]

Missing == Value("undefined", FALSE, FALSE, <<>>, NoSettings)
NullValue == Value("null", FALSE, FALSE, <<>>, NoSettings)
FalseValue == Value("boolean", FALSE, FALSE, <<>>, NoSettings)
ZeroValue == Value("number", FALSE, FALSE, <<>>, NoSettings)
EmptyString == Value("string", FALSE, FALSE, <<>>, NoSettings)
NumberValue == Value("number", TRUE, FALSE, <<>>, NoSettings)
StringValue == Value("string", TRUE, FALSE, <<>>, NoSettings)
EmptyArray == Value("array", TRUE, TRUE, <<>>, NoSettings)
StoredArray ==
  Value("array", TRUE, TRUE,
        <<[date |-> DateOf(2), startBalance |-> Num(1000, 1),
           endBalance |-> Num(1050, 1), notes |-> <<>>]>>, NoSettings)
ArrayOfNull == Value("array", TRUE, FALSE, <<NoEntry>>, NoSettings)
EmptyObject == Value("object", TRUE, FALSE, <<>>, NoSettings)
StoredObject ==
  Value("object", TRUE, TRUE, <<>>, [DefaultSettings EXCEPT !.leverage = Num(5, 1)])
DefaultsObject == Value("object", TRUE, TRUE, <<>>, DefaultSettings)
\* Array.prototype.entries, what `.entries` reads from an array
EntriesMethod == Value("function", TRUE, FALSE, <<>>, NoSettings)

EntriesFieldValues ==
  {Missing, NullValue, FalseValue, ZeroValue, EmptyString, NumberValue,
   StringValue, EmptyArray, StoredArray, ArrayOfNull, EmptyObject}
SettingsFieldValues ==
  {Missing, NullValue, ZeroValue, EmptyString, NumberValue, StringValue,
   StoredObject, EmptyObject, EmptyArray}

\* localStorage.getItem(storageKey): null (absent), the empty string, text
\* that is not JSON, or JSON text of a value of type `top` (an object has
\* the fields e = entries and s = settings)
Item(k, top, e, s) == [k |-> k, top |-> top, e |-> e, s |-> s]
RawSet ==
  {Item(k, "none", Missing, Missing) : k \in {"absent", "empty", "text"}}
  \cup {Item("json", top, Missing, Missing)
          : top \in {"null", "number", "string", "boolean", "array"}}
  \cup {Item("json", "object", e, s)
          : e \in EntriesFieldValues, s \in SettingsFieldValues}

\* JSON.parse(raw) throws
ParseThrows(r) == r.k = "text"

\* JSON.parse(raw)[name] throws: a property read of null
ReadThrows(r) == r.top = "null"

\* JSON.parse(raw).entries and JSON.parse(raw).settings
ReadEntries(r) ==
  CASE r.top = "object" -> r.e
    [] r.top = "array" -> EntriesMethod
    [] OTHER -> Missing
ReadSettings(r) == IF r.top = "object" THEN r.s ELSE Missing

\* the initializer of useState entries
loadEntries(r) ==
  IF r.k \in {"absent", "empty"} THEN EmptyArray
  ELSE IF ParseThrows(r) \/ ReadThrows(r) THEN EmptyArray
  ELSE IF ReadEntries(r).truthy THEN ReadEntries(r) ELSE EmptyArray

\* the initializer of useState settings
loadSettings(r) ==
  IF r.k \in {"absent", "empty"} THEN DefaultsObject
  ELSE IF ParseThrows(r) \/ ReadThrows(r) THEN DefaultsObject
  ELSE IF ReadSettings(r).truthy THEN ReadSettings(r) ELSE EmptyObject

\* the first render throws: [...entries] of a value that is not iterable, or
\* a row read of an element that is no entry
RenderThrows(es) == ~(es.k = "array" /\ es.ok)

Mount ==
  /\ pc = "start"
  /\ initial' = [entries |-> loadEntries(raw), settings |-> loadSettings(raw)]
  /\ pc' = "mounted"
  /\ UNCHANGED <<storeVars, posVars, ruleVars, raw>>

FirstRender ==
  /\ pc = "mounted"
  /\ pc' = IF RenderThrows(initial.entries) THEN "crashed" ELSE "rendered"
  /\ UNCHANGED <<storeVars, posVars, ruleVars, loadVars>>

(* ---------------------------------------------------------------------- *)
(* Calls of the pure computations                                          *)
(* ---------------------------------------------------------------------- *)

CalcPosition ==
  /\ pc = "call"
  /\ positionCalc' = calcPosition(args)
  /\ pc' = "return"
  /\ UNCHANGED <<storeVars, ruleVars, loadVars, args>>

EvaluateRule ==
  /\ pc = "call"
  /\ dailyLossExceeded' = lossExceeded(dailyRow, maxDailyLossPercent)
  /\ pc' = "return"
  /\ UNCHANGED <<storeVars, posVars, loadVars, dailyRow, maxDailyLossPercent>>

(* ---------------------------------------------------------------------- *)
(* Specifications                                                          *)
(* ---------------------------------------------------------------------- *)

\* journals found in storage at a start: none, one day, two days stored
\* out of date order
InitialEntries ==
  {<<>>,
   <<Payload(CHOOSE f \in FormInputs : f.date = DateOf(2) /\ f.startBalance = Str(<<>>))>>}

IdleStore ==
  /\ entries = <<>>
  /\ settings = DefaultSettings
  /\ queue = <<>>
  /\ squeue = <<>>
  /\ equity = <<>>
  /\ persisted = AbsentItem
  /\ effectPending = FALSE
IdlePos ==
  /\ args = [entry |-> Str(<<>>), stop |-> Str(<<>>), balance |-> Num(0, 1),
             riskPercent |-> DefaultSettings.riskPercent,
             feePercent |-> DefaultSettings.feePercent,
             leverage |-> DefaultSettings.leverage]
  /\ positionCalc = NullPlan
IdleRule ==
  /\ dailyRow = NoRow
  /\ maxDailyLossPercent = DefaultSettings.maxDailyLossPercent
  /\ dailyLossExceeded = FALSE
IdleLoad ==
  /\ raw = Item("absent", "none", Missing, Missing)
  /\ initial = [entries |-> EmptyArray, settings |-> DefaultsObject]

\* the mounted component: state as loaded, the mount's persist effect pending
Init ==
  /\ entries \in InitialEntries
  /\ settings = DefaultSettings
  /\ queue = <<>>
  /\ squeue = <<>>
  /\ equity = equityMemo(entries).rows
  /\ persisted \in {AbsentItem, JSONstringify(entries, settings)}
  /\ persisted = AbsentItem => entries = <<>>
  /\ effectPending = TRUE
  /\ IdlePos /\ IdleRule /\ IdleLoad
  /\ pc = "running"

Next ==
  \/ \E form \in FormInputs : Submit(form)
  \/ \E i \in 1..Len(equity) : removeEntry(equity[i].date)
  \/ \E field \in SettingFields, v \in SettingInputs : ChangeSetting(field, v)
  \/ Render
  \/ PersistEffect

Spec == Init /\ [][Next]_vars

InitLoad ==
  /\ IdleStore /\ IdlePos /\ IdleRule
  /\ raw \in RawSet
  /\ initial = [entries |-> Missing, settings |-> Missing]
  /\ pc = "start"

NextLoad == Mount \/ FirstRender

SpecLoad == InitLoad /\ [][NextLoad]_vars

InitPos ==
  /\ IdleStore /\ IdleRule /\ IdleLoad
  /\ args \in ArgsSet
  /\ positionCalc = NullPlan
  /\ pc = "call"

NextPos == CalcPosition

SpecPos == InitPos /\ [][NextPos]_vars

InitRule ==
  /\ IdleStore /\ IdlePos /\ IdleLoad
  /\ dailyRow \in RuleRows
  /\ maxDailyLossPercent \in ThresholdInputs
  /\ dailyLossExceeded = FALSE
  /\ pc = "call"

NextRule == EvaluateRule

SpecRule == InitRule /\ [][NextRule]_vars

(* ---------------------------------------------------------------------- *)
(* Properties                                                              *)
(* ---------------------------------------------------------------------- *)

\* the collection the next render commits
Store == ProcessQueue(entries, queue)
StoreNext == ProcessQueue(entries', queue')

\* this step is addOrUpdateEntry submitting `form`
IsSubmitOf(form) == queue' = Append(queue, UpsertUpdate(entries, form))
\* this step is removeEntry(date)
IsRemoveOf(date) == queue' = Append(queue, FilterDate(date))

DatesOf(es) == {es[i].date : i \in 1..Len(es)}
NoDuplicateDates(es) ==
  \A i, j \in 1..Len(es) : es[i].date = es[j].date => i = j

\* C1: starting without duplicate dates, after any sequence of submits and
\* removes, several of them possibly issued from the same render, the
\* collection holds at most one entry per date.
C1_OneEntryPerDate == pc = "running" => NoDuplicateDates(entries)

C2_UpsertPost(form) ==
  LET p == Payload(form)
      hits == {i \in 1..Len(entries) : entries[i].date = form.date}
  IN  IF hits # {}
      THEN LET idx == CHOOSE i \in hits : \A j \in hits : i <= j
           IN  /\ Len(StoreNext) = Len(entries)
               /\ StoreNext[idx] = p
               /\ \A i \in 1..Len(entries) : i # idx => StoreNext[i] = entries[i]
      ELSE StoreNext = Store \o <<p>>
C4_RemoveFrame ==
  [][\A date \in Dates : IsRemoveOf(date) =>
       /\ StoreNext = SelectSeq(Store, LAMBDA x : x.date # date)
       /\ (date \notin DatesOf(Store) => StoreNext = Store)
       /\ settings' = settings
       /\ ProcessSettings(settings', squeue') = ProcessSettings(settings, squeue)]_vars

\* a remove of the first of two entries is pending
C4_Witness ==
  /\ Len(entries) = 2
  /\ NoDuplicateDates(entries)
  /\ queue = <<FilterDate(entries[1].date)>>
  /\ ProcessQueue(entries, queue) = <<entries[2]>>

Quiescent == pc = "running" /\ Pending = 0 /\ ~effectPending
\* C5: once no update and no effect is pending, the persisted item equals the
\* in-memory entries and settings.
C5_PersistedWhenQuiescent ==
  Quiescent => persisted = [present |-> TRUE, entries |-> entries, settings |-> settings]

\* quiescent after entries and settings were both changed
C5_Witness ==
  /\ Quiescent
  /\ Len(entries) = 2
  /\ settings # DefaultSettings
  /\ persisted.present

EntriesAvailable(r) ==
  r.k = "json" /\ r.top = "object" /\ r.e.k = "array" /\ r.e.ok
SettingsAvailable(r) ==
  r.k = "json" /\ r.top = "object" /\ r.s.k = "object" /\ r.s.ok
\* C6: the startup never fails; entries are empty wherever the stored item
\* gives no valid entries, settings are the defaults wherever it gives no
\* valid settings.
C6_LoadDegradesToDefaults ==
  pc \in {"mounted", "rendered", "crashed"} =>
    /\ pc # "crashed"
    /\ ~EntriesAvailable(raw) => initial.entries = EmptyArray
    /\ ~SettingsAvailable(raw) => initial.settings = DefaultsObject

ZeroEmptyOrMalformed(v) ==
  LET x == Number(v) IN x.k = "nan" \/ (x.k = "num" /\ x.n = 0)
Insufficient(a) ==
  \/ ZeroEmptyOrMalformed(a.entry)
  \/ ZeroEmptyOrMalformed(a.stop)
  \/ ZeroEmptyOrMalformed(a.balance)
  \/ ZeroEmptyOrMalformed(a.riskPercent)
  \/ Number(a.entry) = Number(a.stop)
\* C7: calcPosition returns null exactly when entry equals stop or one of
\* entry, stop, balance, riskPercent is zero, empty or malformed.
C7_NullIffInsufficient ==
  pc = "return" => (positionCalc.isNull <=> Insufficient(args))

\* entry equals stop, every input present: null
C7_Witness ==
  /\ pc = "return"
  /\ positionCalc.isNull
  /\ ~ZeroEmptyOrMalformed(args.entry)
  /\ ~ZeroEmptyOrMalformed(args.balance)
  /\ ~ZeroEmptyOrMalformed(args.riskPercent)
  /\ Number(args.entry) = Number(args.stop)

C8_SeriesShape ==
  /\ Len(equity) = Len(entries)
  /\ \A i \in 1..Len(equity) : equity[i].index = i
  /\ \A i, j \in 1..Len(equity) : i < j => equity[i].date <= equity[j].date
  /\ \A dt \in Dates :
       Cardinality({i \in 1..Len(equity) : equity[i].date = dt})
         = Cardinality({i \in 1..Len(entries) : entries[i].date = dt})
\* C8: the equity series has one row per entry, is sorted by date ascending
\* and numbered 1..n; deriving it leaves the stored collection in its order.
C8_EquitySortedIndexed ==
  /\ [](pc = "running" => C8_SeriesShape)
  /\ [][entries' # entries => entries' = Store]_vars

\* two entries stored out of date order, the series in date order
C8_Witness ==
  /\ Len(entries) = 2
  /\ entries[1].date > entries[2].date
  /\ equity[1].date < equity[2].date
  /\ equity[2].index = 2

\* C9: a row with start > 0 and a positive P/L never yields lossExceeded,
\* whatever maxDailyLossPercent is.
C9_ProfitNeverExceedsLoss ==
  (/\ pc = "return"
   /\ dailyRow.found
   /\ Lt(Zero, dailyRow.row.start)
   /\ Lt(Zero, dailyRow.row.pl))
  => dailyLossExceeded = FALSE

ClampedLeverage(v) ==
  LET x == Number(v) IN IF IsNum(x) /\ Le(One, x) THEN x ELSE One
\* C10: whenever a plan is returned, marginRequired is notional divided by
\* the leverage clamped to at least 1, and so never exceeds the notional in
\* magnitude, whatever the stored leverage is.
C10_LeverageClamped ==
  (pc = "return" /\ ~positionCalc.isNull) =>
    /\ positionCalc.marginRequired
         = Div(positionCalc.notional, ClampedLeverage(args.leverage))
    /\ Le(MathAbs(positionCalc.marginRequired), MathAbs(positionCalc.notional))

====
